---- MODULE Spec2Model ----
(***************************************************************************)
(* Model of src/app.py: a Streamlit page that sends Instagram usernames to *)
(* an n8n webhook and then polls a Google Sheet until new rows appear.     *)
(*                                                                         *)
(* Strings are sequences of one-character strings, a DataFrame is          *)
(* abstracted to its row count, time is counted in seconds.                *)
(***************************************************************************)
EXTENDS Integers, Sequences, FiniteSets, TLC

(* ---------------- program constants ---------------- *)

\* @st.cache_data(ttl=60)
TTL == 60
\* time.sleep(5) in wait_for_new_data
POLL_INTERVAL == 5
\* requests.post(..., timeout=300)
REQUEST_TIMEOUT == 300
\* elif len(usernames_list) > 5
MAX_USERNAMES == 5
\* response.status_code == 200
HTTP_OK == 200

(* ---------------- bounds of the model ---------------- *)

\* largest row count of the remote sheet
MaxRows == 2
\* a remote read of the sheet takes no time or MaxLatency seconds
MaxLatency == 2
\* wait_for_new_data is called with max_wait_time in 1..MaxWaitTime
MaxWaitTime == 15

(* ---------------- strings ---------------- *)

Whitespace == {" ", "\t", "\r", "\n"}

RECURSIVE LStrip(_)
LStrip(s) ==
    IF s # <<>> /\ Head(s) \in Whitespace THEN LStrip(Tail(s)) ELSE s

RECURSIVE RStrip(_)
RStrip(s) ==
    IF s # <<>> /\ s[Len(s)] \in Whitespace
    THEN RStrip(SubSeq(s, 1, Len(s) - 1))
    ELSE s

\* str.strip()
Strip(s) == RStrip(LStrip(s))

StartsWith(s, p) == Len(p) <= Len(s) /\ SubSeq(s, 1, Len(p)) = p

\* str.replace(old, new): every non-overlapping occurrence, left to right
RECURSIVE Replace(_, _, _)
Replace(s, old, new) ==
    IF s = <<>> THEN <<>>
    ELSE IF StartsWith(s, old)
         THEN new \o Replace(SubSeq(s, Len(old) + 1, Len(s)), old, new)
         ELSE <<Head(s)>> \o Replace(Tail(s), old, new)

\* str.split(sep) for a one-character separator: "" gives [""]
RECURSIVE SplitFrom(_, _, _)
SplitFrom(s, sep, cur) ==
    IF s = <<>> THEN <<cur>>
    ELSE IF Head(s) = sep
         THEN <<cur>> \o SplitFrom(Tail(s), sep, <<>>)
         ELSE SplitFrom(Tail(s), sep, Append(cur, Head(s)))

Split(s, sep) == SplitFrom(s, sep, <<>>)

INSTAGRAM_PREFIX == <<"i", "n", "s", "t", "a", "g", "r", "a", "m", ".", "c", "o", "m", "/">>

\* u.strip().replace('@', '').replace('instagram.com/', '')
CleanUsername(u) == Replace(Replace(Strip(u), <<"@">>, <<>>), INSTAGRAM_PREFIX, <<>>)

IsNonBlank(u) == Strip(u) # <<>>

\* [clean(u) for u in raw_usernames.split("\n") if u.strip()]
UsernamesList(raw_usernames) ==
    LET kept == SelectSeq(Split(raw_usernames, "\n"), IsNonBlank)
    IN  [k \in 1..Len(kept) |-> CleanUsername(kept[k])]

(* ---------------- text-area inputs ---------------- *)

RawEmpty == <<>>
RawBlank == <<" ", "\n", "\n", "\t", " ">>
RawCristiano == <<" ", " ", "@", "c", "r", "i", "s", "t", "i", "a", "n", "o", " ">>
RawMixed == <<"h", "t", "t", "p", "s", ":", "/", "/", "i", "n", "s", "t", "a", "g", "r", "a", "m", ".", "c", "o", "m", "/", "n", "a", "t", "g", "e", "o", "\n", "\n", "@", "n", "a", "s", "a", "\n", " ", "\t", "\n", "i", "n", "s", "t", "a", "g", "r", "a", "m", ".", "c", "o", "m", "/", "b">>
RawTwo == <<"a", "\n", "b">>
RawFive == <<"a", "\n", "b", "\n", "c", "\n", "d", "\n", "e">>
RawSix == <<"a", "\n", "b", "\n", "c", "\n", "d", "\n", "e", "\n", "f">>

RawInputs == {RawEmpty, RawBlank, RawCristiano, RawTwo, RawMixed, RawFive, RawSix}

(* ---------------- values ---------------- *)

None == [none |-> TRUE]

\* a pandas DataFrame, abstracted to its number of rows
DataFrame(n) == [rows |-> n]

\* len(df)
RowCount(df) == df.rows

AllSettings == {"SHEET_ID", "N8N_WEBHOOK", "X_API_KEY"}

\* what the webhook can answer to one POST
Responses ==
    { [kind |-> "response", status_code |-> 200, text |-> "accepted"],
      [kind |-> "response", status_code |-> 403, text |-> "Forbidden"],
      [kind |-> "timeout"],
      [kind |-> "error", exc |-> "ConnectionError"] }

TIMEOUT_MESSAGE == <<"Timeout - El scraping puede estar en proceso">>

\* the number_input offers 1..10, value=5
PostCounts == {5}

\* seconds the user lets pass between two runs
IdleSteps == {TTL - POLL_INTERVAL, TTL}

\* seconds one remote read of the sheet takes
Latencies == {0, MaxLatency}

Min(a, b) == IF a < b THEN a ELSE b

(* ---------------- get_sheet_data and its cache ---------------- *)

\* mutant of CacheLive: the entry lives for one poll interval only
CacheLive_ShortLived(c) == c # None /\ c.age < POLL_INTERVAL

\* the cache of st.cache_data: None, or the memoized value with its age.
\* An entry is served while age < TTL; ages are capped at TTL.
CacheLive(c) == c # None /\ c.age < TTL

\* d seconds pass
Age(c, d) == IF c = None THEN None ELSE [c EXCEPT !.age = Min(c.age + d, TTL)]

\* get_sheet_data(): the memoized value while it is live, else one remote
\* read (rows of the sheet, or the empty DataFrame of the except branch);
\* the value returned by the function body is what gets memoized
GetSheetData(c, read_ok, rows, latency) ==
    IF CacheLive(c)
    THEN [df |-> c.value, cache |-> c, remote |-> FALSE, took |-> 0, error |-> FALSE]
    ELSE LET df == IF read_ok THEN DataFrame(rows) ELSE DataFrame(0)
         IN  [df |-> df, cache |-> [value |-> df, age |-> 0],
              remote |-> TRUE, took |-> latency, error |-> ~read_ok]

\* mutant of Clear: the entry survives
Clear_NoOp(c) == c

\* get_sheet_data.clear()
Clear(c) == None

(* ---------------- send_to_n8n ---------------- *)

\* payload = {"username": username, "posts": posts}
Payload(username, posts) == [username |-> username, posts |-> posts]

\* one call of send_to_n8n as the webhook and the caller saw it
Call(username, posts, resp, res) ==
    [payload |-> Payload(username, posts), resp |-> resp, ok |-> res[1], message |-> res[2]]

\* mutant of SendToN8n: any answer of the webhook counts as success
SendToN8n_AnyAnswerOk(username, posts, resp) ==
    CASE resp.kind = "response" -> <<TRUE, <<resp.text>>>>
      [] resp.kind = "timeout"  -> <<FALSE, TIMEOUT_MESSAGE>>
      [] OTHER                  -> <<FALSE, <<"Error: ", resp.exc>>>>

\* returns <<ok, message>>
SendToN8n(username, posts, resp) ==
    CASE resp.kind = "response" -> <<resp.status_code = HTTP_OK, <<resp.text>>>>
      [] resp.kind = "timeout"  -> <<FALSE, TIMEOUT_MESSAGE>>
      [] OTHER                  -> <<FALSE, <<"Error: ", resp.exc>>>>

\* seconds one POST keeps the script blocked
SendDuration(resp) == IF resp.kind = "timeout" THEN REQUEST_TIMEOUT ELSE 0

(* ---------------- session state and rendering ---------------- *)

Has(s, k) == k \in DOMAIN s

\* st.session_state[k] = v
Put(s, k, v) == [x \in DOMAIN s \cup {k} |-> IF x = k THEN v ELSE s[x]]

\* st.session_state.get(k, default)
Get(s, k, default) == IF Has(s, k) THEN s[k] ELSE default

\* if 'scraping_completed' not in st.session_state: ...
SessionInit(s) ==
    LET s1 == IF Has(s, "scraping_completed") THEN s ELSE Put(s, "scraping_completed", FALSE)
    IN  IF Has(s1, "last_scraped_data") THEN s1 ELSE Put(s1, "last_scraped_data", None)

\* mutant of DataSection: a stored snapshot is shown whatever the flag says
DataSection_IgnoresFlag(s) ==
    IF s["last_scraped_data"] # None
    THEN IF RowCount(s["last_scraped_data"]) > 0 THEN "table_and_download" ELSE "no_data_error"
    ELSE "placeholder"

\* section 6: what the data section shows
DataSection(s) ==
    IF s["scraping_completed"] /\ s["last_scraped_data"] # None
    THEN IF RowCount(s["last_scraped_data"]) > 0 THEN "table_and_download" ELSE "no_data_error"
    ELSE "placeholder"

(* ---------------- state ---------------- *)

VARIABLES
    settings,          \* the required settings found in the environment or the secrets
    sheet_rows,        \* number of rows of the remote sheet
    cache,             \* the st.cache_data entry of get_sheet_data
    session_state,     \* st.session_state
    pc,                \* "idle" between runs, else the position of the running script
    request,           \* query parameter, pressed button and widget values of the run
    usernames_list,    \* local of the scrape handler
    user_idx,          \* position of the for loop over usernames_list
    errores,           \* local of the scrape handler
    initial_count,     \* local of the scrape handler
    max_wait_time,     \* argument of wait_for_new_data
    elapsed,           \* time.time() - start_time
    current_df,        \* local of wait_for_new_data
    result,            \* what wait_for_new_data returned
    outcome,           \* the message the run ended with
    shown,             \* what the data section shows
    calls,             \* the calls of send_to_n8n during the run
    reads,             \* remote reads of the sheet during the run
    gsd,               \* the previous call of get_sheet_data: its value, the age of
                       \* the entry it came from, and whether clear() was called since
    fetch,             \* the latest call of get_sheet_data of the run
    growth,            \* when, during the wait, the sheet first had more rows than the baseline
    previous           \* while the page of the previous run is displayed: how that run
                       \* ended and the baseline it had taken

vars == <<settings, sheet_rows, cache, session_state, pc, request, usernames_list,
          user_idx, errores, initial_count, max_wait_time, elapsed, current_df,
          result, outcome, shown, calls, reads, gsd, fetch, growth, previous>>

locals == <<usernames_list, user_idx, errores, initial_count, max_wait_time,
            elapsed, current_df, result>>

\* no page of a previous run
NoPage == [outcome |-> "none", baseline |-> 0]

NoRequest == [health |-> "none", button |-> "none", raw_usernames |-> RawEmpty, num_posts |-> 5]

\* the text area matters to the scrape handler only
Requests ==
    { [health |-> h, button |-> b, raw_usernames |-> RawEmpty, num_posts |-> 5] :
          h \in {"none", "check"}, b \in {"none", "refresh"} }
    \cup
    { [health |-> h, button |-> "scrape", raw_usernames |-> r, num_posts |-> n] :
          h \in {"none", "check"}, r \in RawInputs, n \in PostCounts }

(* history of get_sheet_data calls *)

\* the call returned r
NoteCall(r) == [df |-> r.df, age |-> r.cache.age, cleared |-> FALSE]

\* no call yet
NoCall == [df |-> None, age |-> TTL, cleared |-> FALSE]

\* the call returned r; g is the call before it: was clear() called since,
\* was its entry still within the time-to-live, did it return the same
\* value, was the sheet read
Observe(g, r) ==
    [df          |-> r.df,
     after_clear |-> g.cleared,
     ttl_left    |-> g.age < TTL,
     same        |-> g.df = r.df,
     remote      |-> r.remote,
     took        |-> r.took,
     error       |-> r.error]

NoteClear(g) == [g EXCEPT !.cleared = TRUE]

NoteTime(g, d) == [g EXCEPT !.age = Min(g.age + d, TTL)]

Init ==
    /\ settings \in SUBSET AllSettings
    /\ sheet_rows \in 0..MaxRows
    /\ cache = None
    /\ session_state = <<>>
    /\ pc = "idle"
    /\ request = NoRequest
    /\ usernames_list = <<>>
    /\ user_idx = 1
    /\ errores = <<>>
    /\ initial_count = 0
    /\ max_wait_time = 0
    /\ elapsed = 0
    /\ current_df = None
    /\ result = None
    /\ outcome = "none"
    /\ shown = "none"
    /\ calls = <<>>
    /\ reads = 0
    /\ gsd = NoCall
    /\ fetch = None
    /\ growth = None
    /\ previous = NoPage

\* the sheet got more rows than the baseline e seconds into a wait of m
\* seconds, while the poller was at position p
GrowthAt(e, m, p) ==
    [when   |-> IF e < m THEN "before_timeout"
                ELSE IF e = m THEN "at_timeout" ELSE "after_timeout",
     during |-> p]

(* ---------------- the environment ---------------- *)

\* The sheet changes between runs and while the script waits; a change
\* during the dispatch loop is seen by the script no earlier than a change
\* right after it, and is modelled as the latter.
SheetMayChange == pc \in {"idle", "polling", "sleeping"}

\* the automation workflow (or anybody else) appends a row to the sheet
SheetAppend ==
    /\ SheetMayChange
    /\ sheet_rows < MaxRows
    /\ sheet_rows' = sheet_rows + 1
    /\ growth' = IF pc \in {"polling", "sleeping"} /\ growth = None
                    /\ sheet_rows + 1 > initial_count
                 THEN GrowthAt(elapsed, max_wait_time, pc)
                 ELSE growth
    /\ UNCHANGED <<settings, previous, cache, session_state, pc, request, locals, outcome,
                   shown, calls, reads, gsd, fetch>>

\* a row of the sheet is deleted
SheetDelete ==
    /\ SheetMayChange
    /\ sheet_rows > 0
    /\ sheet_rows' = sheet_rows - 1
    /\ UNCHANGED <<settings, previous, cache, session_state, pc, request, locals, outcome,
                   shown, calls, reads, gsd, fetch, growth>>

\* time passes between two runs
Idle(d) ==
    /\ pc = "idle"
    /\ CacheLive(cache)
    /\ cache' = Age(cache, d)
    /\ gsd' = NoteTime(gsd, d)
    /\ UNCHANGED <<settings, previous, sheet_rows, session_state, pc, request, locals, outcome,
                   shown, calls, reads, fetch, growth>>

\* the script has run to its end or to st.stop(): its locals are gone and
\* the page waits for the next browser event
EndRun ==
    /\ pc = "done"
    /\ pc' = "idle"
    /\ request' = NoRequest
    /\ usernames_list' = <<>>
    /\ user_idx' = 1
    /\ errores' = <<>>
    /\ initial_count' = 0
    /\ max_wait_time' = 0
    /\ elapsed' = 0
    /\ current_df' = None
    /\ result' = None
    /\ outcome' = "none"
    /\ shown' = "none"
    /\ calls' = <<>>
    /\ reads' = 0
    /\ fetch' = None
    /\ growth' = None
    /\ previous' = [outcome |-> outcome, baseline |-> initial_count]
    /\ UNCHANGED <<settings, sheet_rows, cache, session_state, gsd>>

(* ---------------- the script, top to bottom ---------------- *)

\* mutant of IsHealthCheck: the buttons are looked at first
IsHealthCheck_AfterButtons(req) == req.health = "check" /\ req.button = "none"

\* if st.query_params.get("health") == "check"
IsHealthCheck(req) == req.health = "check"

\* mutant of PastPrologue: the configuration is not checked
PastPrologue_NoConfigCheck(req) ==
    /\ pc = "idle"
    /\ ~IsHealthCheck(req)

\* a browser event req starts a run that gets past the health check, the
\* authentication and the configuration check
PastPrologue(req) ==
    /\ pc = "idle"
    /\ ~IsHealthCheck(req)
    /\ settings = AllSettings

\* st.write("OK"); st.stop()
HealthCheck(req) ==
    /\ pc = "idle"
    /\ IsHealthCheck(req)
    /\ request' = req
    /\ previous' = NoPage
    /\ outcome' = "health_ok"
    /\ pc' = "done"
    /\ UNCHANGED <<settings, sheet_rows, cache, session_state, locals,
                   shown, calls, reads, gsd, fetch, growth>>

\* except Exception as e: st.error(...); st.stop()
AuthError(req) ==
    /\ pc = "idle"
    /\ ~IsHealthCheck(req)
    /\ request' = req
    /\ previous' = NoPage
    /\ outcome' = "auth_error"
    /\ pc' = "done"
    /\ UNCHANGED <<settings, sheet_rows, cache, session_state, locals,
                   shown, calls, reads, gsd, fetch, growth>>

\* if not all([SHEET_ID, N8N_WEBHOOK, X_API_KEY]): st.error(...); st.stop()
ConfigError(req) ==
    /\ pc = "idle"
    /\ ~IsHealthCheck(req)
    /\ settings # AllSettings
    /\ request' = req
    /\ previous' = NoPage
    /\ outcome' = "config_error"
    /\ pc' = "done"
    /\ UNCHANGED <<settings, sheet_rows, cache, session_state, locals,
                   shown, calls, reads, gsd, fetch, growth>>

\* a run in which no button was pressed
Rerun(req) ==
    /\ PastPrologue(req)
    /\ req.button = "none"
    /\ request' = req
    /\ previous' = NoPage
    /\ session_state' = SessionInit(session_state)
    /\ outcome' = "rendered"
    /\ shown' = DataSection(session_state')
    /\ pc' = "done"
    /\ UNCHANGED <<settings, sheet_rows, cache, locals, calls, reads,
                   gsd, fetch, growth>>

\* mutant of RefreshState: scraping_in_progress is not reset
RefreshState_KeepsProgress(s) ==
    Put(Put(s, "scraping_completed", FALSE), "last_scraped_data", None)

\* the session state the refresh button leaves
RefreshState(s) ==
    Put(Put(Put(s, "scraping_completed", FALSE), "last_scraped_data", None),
        "scraping_in_progress", FALSE)

\* if st.button("Refrescar"): ...; get_sheet_data.clear(); st.rerun()
\* and the run that st.rerun() starts, in which no button is pressed
Refresh(req) ==
    /\ PastPrologue(req)
    /\ req.button = "refresh"
    /\ request' = req
    /\ previous' = NoPage
    /\ session_state' = RefreshState(SessionInit(session_state))
    /\ cache' = Clear(cache)
    /\ gsd' = NoteClear(gsd)
    /\ outcome' = "refreshed"
    /\ shown' = DataSection(session_state')
    /\ pc' = "done"
    /\ UNCHANGED <<settings, sheet_rows, locals, calls, reads, fetch, growth>>

\* mutant of Validate: the limit is off by one
Validate_OffByOne(list) ==
    IF Len(list) = 0 THEN "validation_empty"
    ELSE IF Len(list) > MAX_USERNAMES + 1 THEN "validation_too_many"
    ELSE "ok"

\* the validations of the scrape handler
Validate(list) ==
    IF Len(list) = 0 THEN "validation_empty"
    ELSE IF Len(list) > MAX_USERNAMES THEN "validation_too_many"
    ELSE "ok"

\* if scrape_button: the list is rejected with a warning
SubmitInvalid(req) ==
    /\ PastPrologue(req)
    /\ req.button = "scrape"
    /\ request' = req
    /\ previous' = NoPage
    /\ LET list == UsernamesList(req.raw_usernames)
       IN  /\ Validate(list) # "ok"
           /\ usernames_list' = list
           /\ outcome' = Validate(list)
    /\ session_state' = SessionInit(session_state)
    /\ shown' = DataSection(session_state')
    /\ pc' = "done"
    /\ UNCHANGED <<settings, sheet_rows, cache, user_idx, errores,
                   initial_count, max_wait_time, elapsed, current_df, result,
                   calls, reads, gsd, fetch, growth>>

\* if scrape_button: the list is accepted, the flags are set and the
\* baseline is taken with get_sheet_data()
SubmitBegin(req, read_ok, latency) ==
    /\ PastPrologue(req)
    /\ req.button = "scrape"
    /\ request' = req
    /\ previous' = NoPage
    /\ LET list == UsernamesList(req.raw_usernames)
           r    == GetSheetData(cache, read_ok, sheet_rows, latency)
       IN  /\ Validate(list) = "ok"
           /\ usernames_list' = list
           /\ session_state' = Put(Put(SessionInit(session_state),
                                       "scraping_in_progress", TRUE),
                                   "scraping_completed", FALSE)
           /\ cache' = r.cache
           /\ gsd' = NoteCall(r)
           /\ fetch' = Observe(gsd, r)
           /\ reads' = reads + (IF r.remote THEN 1 ELSE 0)
           /\ initial_count' = RowCount(r.df)
    /\ user_idx' = 1
    /\ errores' = <<>>
    /\ outcome' = "running"
    /\ pc' = "dispatching"
    /\ UNCHANGED <<settings, sheet_rows, max_wait_time, elapsed,
                   current_df, result, shown, calls, growth>>

\* errores.append(f"@{user}: {message}")
ErrorLine(user, message) == <<"@", user, ": ", message>>

\* mutant of Dispatch: the loop stops at the first failed dispatch
Dispatch_StopOnFailure(resp) ==
    /\ pc = "dispatching"
    /\ user_idx <= Len(usernames_list)
    /\ LET user == usernames_list[user_idx]
           res  == SendToN8n(user, request.num_posts, resp)
       IN  /\ calls' = Append(calls, Call(user, request.num_posts, resp, res))
           /\ errores' = IF res[1] THEN errores
                         ELSE Append(errores, ErrorLine(user, res[2]))
           /\ user_idx' = IF res[1] THEN user_idx + 1 ELSE Len(usernames_list) + 1
    /\ cache' = Age(cache, SendDuration(resp))
    /\ gsd' = NoteTime(gsd, SendDuration(resp))
    /\ UNCHANGED <<settings, previous, sheet_rows, session_state, pc, request, usernames_list,
                   initial_count, max_wait_time, elapsed, current_df, result,
                   outcome, shown, reads, fetch, growth>>

\* one iteration of: for user in usernames_list
Dispatch(resp) ==
    /\ pc = "dispatching"
    /\ user_idx <= Len(usernames_list)
    /\ LET user == usernames_list[user_idx]
           res  == SendToN8n(user, request.num_posts, resp)
       IN  /\ calls' = Append(calls, Call(user, request.num_posts, resp, res))
           /\ errores' = IF res[1] THEN errores
                         ELSE Append(errores, ErrorLine(user, res[2]))
    /\ user_idx' = user_idx + 1
    /\ cache' = Age(cache, SendDuration(resp))
    /\ gsd' = NoteTime(gsd, SendDuration(resp))
    /\ UNCHANGED <<settings, previous, sheet_rows, session_state, pc, request, usernames_list,
                   initial_count, max_wait_time, elapsed, current_df, result,
                   outcome, shown, reads, fetch, growth>>

\* mutant of DispatchFailed: scraping_in_progress is not reset
DispatchFailed_KeepsFlag ==
    /\ pc = "dispatching"
    /\ user_idx > Len(usernames_list)
    /\ errores # <<>>
    /\ outcome' = "dispatch_failed"
    /\ session_state' = session_state
    /\ shown' = DataSection(session_state')
    /\ pc' = "done"
    /\ UNCHANGED <<settings, previous, sheet_rows, cache, request, locals, calls, reads,
                   gsd, fetch, growth>>

\* if errores: the errors are listed and the run ends
DispatchFailed ==
    /\ pc = "dispatching"
    /\ user_idx > Len(usernames_list)
    /\ errores # <<>>
    /\ outcome' = "dispatch_failed"
    /\ session_state' = Put(session_state, "scraping_in_progress", FALSE)
    /\ shown' = DataSection(session_state')
    /\ pc' = "done"
    /\ UNCHANGED <<settings, previous, sheet_rows, cache, request, locals, calls, reads,
                   gsd, fetch, growth>>

(* ---------------- wait_for_new_data ---------------- *)

\* the values of max_wait_time the model calls wait_for_new_data with
\* (the handler itself always passes the default)
WaitTimes == {1, 3 * POLL_INTERVAL, MaxWaitTime}

\* mutant of LoopCondition: one more iteration when the time is just up
LoopCondition_Inclusive(e, m) == e <= m

\* while time.time() - start_time < max_wait_time
LoopCondition(e, m) == e < m

\* if current_count > initial_count

\* mutant of NewData: a count equal to the baseline counts as new data
NewData_OrEqual(current_count, baseline) == current_count >= baseline

\* if current_count > initial_count
NewData(current_count, baseline) == current_count > baseline

\* mutant of StartWait: the wait starts whether or not a request failed
StartWait_IgnoringErrors(t) ==
    /\ pc = "dispatching"
    /\ user_idx > Len(usernames_list)
    /\ max_wait_time' = t
    /\ elapsed' = 0
    /\ growth' = IF sheet_rows > initial_count
                 THEN GrowthAt(0, t, "start") ELSE None
    /\ pc' = "polling"
    /\ UNCHANGED <<settings, previous, sheet_rows, cache, session_state, request, usernames_list,
                   user_idx, errores, initial_count, current_df, result, outcome,
                   shown, calls, reads, gsd, fetch>>

\* else: the requests were all accepted; wait_for_new_data(initial_count, ...) starts
StartWait(t) ==
    /\ pc = "dispatching"
    /\ user_idx > Len(usernames_list)
    /\ errores = <<>>
    /\ max_wait_time' = t
    /\ elapsed' = 0
    /\ growth' = IF sheet_rows > initial_count
                 THEN GrowthAt(0, t, "start") ELSE None
    /\ pc' = "polling"
    /\ UNCHANGED <<settings, previous, sheet_rows, cache, session_state, request, usernames_list,
                   user_idx, errores, initial_count, current_df, result, outcome,
                   shown, calls, reads, gsd, fetch>>

\* one iteration of the while loop up to the comparison: clear the cache,
\* read the sheet, compare; on growth wait_for_new_data returns
\* (True, current_df) and the handler stores the result
Poll(read_ok, latency) ==
    /\ pc = "polling"
    /\ LoopCondition(elapsed, max_wait_time)
    /\ LET r == GetSheetData(Clear(cache), read_ok, sheet_rows, latency)
       IN  /\ cache' = r.cache
           /\ gsd' = NoteCall(r)
           /\ fetch' = Observe(NoteClear(gsd), r)
           /\ reads' = reads + (IF r.remote THEN 1 ELSE 0)
           /\ current_df' = r.df
           /\ elapsed' = elapsed + r.took
           /\ IF NewData(RowCount(r.df), initial_count)
              THEN /\ result' = [success |-> TRUE, df |-> r.df]
                   /\ outcome' = "completed"
                   /\ session_state' =
                          Put(Put(Put(session_state, "scraping_completed", TRUE),
                                  "last_scraped_data", r.df),
                              "scraping_in_progress", FALSE)
                   /\ shown' = DataSection(session_state')
                   /\ pc' = "done"
              ELSE /\ pc' = "sleeping"
                   /\ UNCHANGED <<result, outcome, session_state, shown>>
    /\ UNCHANGED <<settings, previous, sheet_rows, request, usernames_list, user_idx, errores,
                   initial_count, max_wait_time, calls, growth>>

\* time.sleep(5)
Sleep ==
    /\ pc = "sleeping"
    /\ elapsed' = elapsed + POLL_INTERVAL
    /\ cache' = Age(cache, POLL_INTERVAL)
    /\ gsd' = NoteTime(gsd, POLL_INTERVAL)
    /\ pc' = "polling"
    /\ UNCHANGED <<settings, previous, sheet_rows, session_state, request, usernames_list,
                   user_idx, errores, initial_count, max_wait_time, current_df,
                   result, outcome, shown, calls, reads, fetch, growth>>

\* mutant of WaitTimeout: the final snapshot is read afresh
WaitTimeout_FreshRead(read_ok, latency) ==
    /\ pc = "polling"
    /\ ~LoopCondition(elapsed, max_wait_time)
    /\ LET r == GetSheetData(Clear(cache), read_ok, sheet_rows, latency)
       IN  /\ cache' = r.cache
           /\ gsd' = NoteCall(r)
           /\ fetch' = Observe(NoteClear(gsd), r)
           /\ reads' = reads + (IF r.remote THEN 1 ELSE 0)
           /\ elapsed' = elapsed + r.took
           /\ result' = [success |-> FALSE, df |-> r.df]
    /\ outcome' = "timed_out"
    /\ session_state' = Put(session_state, "scraping_in_progress", FALSE)
    /\ shown' = DataSection(session_state')
    /\ pc' = "done"
    /\ UNCHANGED <<settings, previous, sheet_rows, request, usernames_list, user_idx, errores,
                   initial_count, max_wait_time, current_df, calls, growth>>

\* the loop ends: return False, get_sheet_data(); the handler warns that
\* the scraping takes longer than expected
WaitTimeout(read_ok, latency) ==
    /\ pc = "polling"
    /\ ~LoopCondition(elapsed, max_wait_time)
    /\ LET r == GetSheetData(cache, read_ok, sheet_rows, latency)
       IN  /\ cache' = r.cache
           /\ gsd' = NoteCall(r)
           /\ fetch' = Observe(gsd, r)
           /\ reads' = reads + (IF r.remote THEN 1 ELSE 0)
           /\ elapsed' = elapsed + r.took
           /\ result' = [success |-> FALSE, df |-> r.df]
    /\ outcome' = "timed_out"
    /\ session_state' = Put(session_state, "scraping_in_progress", FALSE)
    /\ shown' = DataSection(session_state')
    /\ pc' = "done"
    /\ UNCHANGED <<settings, previous, sheet_rows, request, usernames_list, user_idx, errores,
                   initial_count, max_wait_time, current_df, calls, growth>>

(* ---------------- specification ---------------- *)

Next ==
    \/ SheetAppend
    \/ SheetDelete
    \/ \E d \in IdleSteps : Idle(d)
    \/ EndRun
    \/ \E req \in Requests : HealthCheck(req)
    \/ \E req \in Requests : AuthError(req)
    \/ \E req \in Requests : ConfigError(req)
    \/ \E req \in Requests : Rerun(req)
    \/ \E req \in Requests : Refresh(req)
    \/ \E req \in Requests : SubmitInvalid(req)
    \/ \E req \in Requests, ok \in BOOLEAN, d \in Latencies : SubmitBegin(req, ok, d)
    \/ \E resp \in Responses : Dispatch(resp)
    \/ DispatchFailed
    \/ \E t \in WaitTimes : StartWait(t)
    \/ \E ok \in BOOLEAN, d \in Latencies : Poll(ok, d)
    \/ Sleep
    \/ \E ok \in BOOLEAN, d \in Latencies : WaitTimeout(ok, d)

Spec == Init /\ [][Next]_vars

TypeOK ==
    /\ settings \subseteq AllSettings
    /\ sheet_rows \in 0..MaxRows
    /\ pc \in {"idle", "done", "dispatching", "polling", "sleeping"}
    /\ request \in Requests
    /\ elapsed \in 0..(MaxWaitTime + POLL_INTERVAL + MaxLatency)
    /\ reads \in Nat
    /\ previous.baseline \in 0..MaxRows

(* ---------------- wait_for_new_data on its own ---------------- *)

\* wait_for_new_data is entered with any baseline and any timeout, whatever
\* the sheet and the cache hold
WaitInit ==
    /\ settings = AllSettings
    /\ sheet_rows \in 0..MaxRows
    /\ cache \in {None} \cup { [value |-> DataFrame(n), age |-> a] :
                                   n \in 0..MaxRows, a \in {0, TTL} }
    /\ session_state = Put(Put(SessionInit(<<>>), "scraping_in_progress", TRUE),
                           "scraping_completed", FALSE)
    /\ pc = "polling"
    /\ request = [health |-> "none", button |-> "scrape",
                  raw_usernames |-> RawCristiano, num_posts |-> 5]
    /\ usernames_list = UsernamesList(RawCristiano)
    /\ user_idx = 2
    /\ errores = <<>>
    /\ initial_count \in 0..MaxRows
    /\ max_wait_time \in 1..MaxWaitTime
    /\ elapsed = 0
    /\ current_df = None
    /\ result = None
    /\ outcome = "running"
    /\ shown = "none"
    /\ calls = <<>>
    /\ reads = 0
    /\ gsd = NoCall
    /\ fetch = None
    /\ growth = IF sheet_rows > initial_count
                THEN GrowthAt(0, max_wait_time, "start") ELSE None
    /\ previous = NoPage

WaitNext ==
    \/ SheetAppend
    \/ SheetDelete
    \/ \E ok \in BOOLEAN, d \in Latencies : Poll(ok, d)
    \/ Sleep
    \/ \E ok \in BOOLEAN, d \in Latencies : WaitTimeout(ok, d)

\* the loop is sequential code: each of its steps is taken once it is
\* reached, every remote read returns
WaitFairness ==
    /\ WF_vars(\E ok \in BOOLEAN, d \in Latencies : Poll(ok, d))
    /\ WF_vars(Sleep)
    /\ WF_vars(\E ok \in BOOLEAN, d \in Latencies : WaitTimeout(ok, d))

FairWaitSpec == WaitInit /\ [][WaitNext]_vars /\ WaitFairness

(* ---------------- properties ---------------- *)

cristiano == <<"c", "r", "i", "s", "t", "i", "a", "n", "o">>
natgeo == <<"n", "a", "t", "g", "e", "o">>

\* the run is the scrape handler's: the button was pressed and the script
\* got to section 5
InScrapeHandler ==
    /\ request.button = "scrape"
    /\ outcome \notin {"none", "health_ok", "auth_error", "config_error"}

\* the cleaned list of every text-area input
Cleaned == [r \in RawInputs |-> UsernamesList(r)]

\* the cleaned list of the submission, computed from the text area
Submitted == Cleaned[request.raw_usernames]

\* C1: a submission of 1 to 5 usernames calls send_to_n8n once per
\* username, in input order: during the loop the calls made are the first
\* usernames of the list, and once the loop is over every username was sent
\* exactly once, whether or not earlier ones failed.
C1_OncePerUsernameInOrder ==
    (InScrapeHandler /\ Len(Submitted) \in 1..MAX_USERNAMES) =>
        /\ Len(calls) <= Len(Submitted)
        /\ \A k \in 1..Len(calls) :
               calls[k].payload = Payload(Submitted[k], request.num_posts)
        /\ (pc = "dispatching" => Len(calls) = user_idx - 1)
        /\ (pc # "dispatching" => Len(calls) = Len(Submitted))

\* a batch of five whose first dispatch failed and whose last succeeded
C1_Witness ==
    /\ pc = "done"
    /\ outcome = "dispatch_failed"
    /\ Len(Submitted) = MAX_USERNAMES
    /\ Len(calls) = MAX_USERNAMES
    /\ ~calls[1].ok
    /\ calls[MAX_USERNAMES].ok

\* C2: a submission whose cleaned list is empty or has more than 5
\* entries ends with a validation message and dispatches nothing.
C2_InvalidNeverDispatched ==
    (InScrapeHandler /\ Len(Submitted) \notin 1..MAX_USERNAMES) =>
        /\ pc = "done"
        /\ calls = <<>>
        /\ outcome = (IF Len(Submitted) = 0 THEN "validation_empty"
                      ELSE "validation_too_many")

\* six usernames were submitted and rejected
C2_Witness ==
    /\ pc = "done"
    /\ request.button = "scrape"
    /\ Len(Submitted) = MAX_USERNAMES + 1
    /\ outcome = "validation_too_many"
    /\ calls = <<>>

\* wait_for_new_data has returned
Returned == pc = "done" /\ result # None

Waiting == pc \in {"polling", "sleeping"}

\* C3: wait_for_new_data returns (True, snapshot) at the first poll whose
\* fresh snapshot has more rows than the baseline: while it waits no
\* snapshot it fetched had more rows, the snapshot returned is the one just
\* read from the sheet and compared, and nothing waited after that read.
\* When it returns False the snapshot is the last one the loop fetched, and
\* has no more rows than the baseline.
C3_ReturnsAtFirstGrowth ==
    /\ Waiting =>
           /\ result = None
           /\ (current_df # None => RowCount(current_df) <= initial_count)
    /\ (Returned /\ result.success) =>
           /\ result.df = current_df
           /\ RowCount(result.df) > initial_count
           /\ fetch.remote
           /\ fetch.df = result.df
           /\ elapsed - fetch.took < max_wait_time
    /\ (Returned /\ ~result.success) =>
           /\ current_df # None
           /\ result.df = current_df
           /\ RowCount(result.df) <= initial_count
           /\ ~fetch.remote

\* the wait timed out although the sheet has grown since the last poll:
\* the snapshot returned is the loop's last one
C3_Witness ==
    /\ Returned
    /\ ~result.success
    /\ sheet_rows > initial_count
    /\ result.df = current_df
    /\ max_wait_time = 3 * POLL_INTERVAL

\* C4 as stated: wait_for_new_data has returned at most timeout + one poll
\* interval after it was started.
C4_WithinTimeoutPlusInterval ==
    Returned => elapsed <= max_wait_time + POLL_INTERVAL

\* C4, amended: wait_for_new_data terminates when every remote read
\* returns, and with reads of at most MaxLatency seconds it is never more
\* than timeout + poll interval + MaxLatency seconds old, the bound being
\* strict.
C4_TerminatesWithinReadTime ==
    /\ (Waiting ~> pc = "done")
    /\ [](elapsed < max_wait_time + POLL_INTERVAL + MaxLatency)

\* the wait returned later than timeout + one poll interval
C4_Witness ==
    /\ Returned
    /\ ~result.success
    /\ elapsed > max_wait_time + POLL_INTERVAL

\* the sheet got more rows than the baseline exactly when the elapsed time
\* reached the timeout, the poller being about to test the loop condition
GrowthAtTimeout ==
    /\ Returned
    /\ growth # None
    /\ growth.when = "at_timeout"
    /\ growth.during = "polling"

\* C5 as stated: growth that becomes visible exactly at the timeout is
\* detected, the poller returns (True, the grown snapshot) at the timeout.
C5_GrowthAtTimeoutDetected ==
    GrowthAtTimeout =>
        /\ result.success
        /\ RowCount(result.df) > initial_count
        /\ elapsed = max_wait_time

\* C5, amended: growth that becomes visible exactly at the timeout is not
\* detected; the poller returns (False, the last snapshot of the loop, with
\* no more rows than the baseline) at the timeout and not later.
C5_GrowthAtTimeoutMissed ==
    GrowthAtTimeout =>
        /\ ~result.success
        /\ result.df = current_df
        /\ RowCount(result.df) <= initial_count
        /\ elapsed = max_wait_time

\* the scenario: timeout of three poll intervals, polls at 0, 5 and 10 s,
\* one more row than the baseline in the sheet from 15 s on
C5_Witness ==
    /\ GrowthAtTimeout
    /\ max_wait_time = 3 * POLL_INTERVAL
    /\ elapsed = 3 * POLL_INTERVAL
    /\ sheet_rows = initial_count + 1
    /\ RowCount(result.df) = initial_count
    /\ reads >= 3

\* C6: the username passed to send_to_n8n is the normalized line:
\* '  @cristiano ' is sent as 'cristiano' and
\* 'https://instagram.com/natgeo' (the first line of RawMixed) as 'natgeo'.
C6_NormalizedBeforeDispatch ==
    \A k \in 1..Len(calls) :
        /\ (request.raw_usernames = RawCristiano /\ k = 1)
               => calls[k].payload.username = cristiano
        /\ (request.raw_usernames = RawMixed /\ k = 1)
               => calls[k].payload.username = natgeo

\* C7: send_to_n8n returns ok exactly for an answer with status 200; any
\* other status gives (False, the body of the answer), which is not the
\* timeout message; a request timeout gives (False, the timeout message)
\* and any other exception (False, "Error: " and its description).
C7_OkIffStatus200 ==
    \A k \in 1..Len(calls) :
        LET c == calls[k]
        IN  /\ c.ok <=> (c.resp.kind = "response" /\ c.resp.status_code = HTTP_OK)
            /\ c.resp.kind = "response" => c.message = <<c.resp.text>>
            /\ (c.resp.kind = "response" /\ c.resp.status_code # HTTP_OK)
                   => c.message # TIMEOUT_MESSAGE
            /\ c.resp.kind = "timeout" => c.message = TIMEOUT_MESSAGE
            /\ c.resp.kind = "error" => c.message = <<"Error: ", c.resp.exc>>

\* a batch in which one dispatch was answered 403 and another timed out
C7_Witness ==
    /\ \E k \in 1..Len(calls) :
           /\ calls[k].resp.kind = "response"
           /\ calls[k].resp.status_code = 403
           /\ ~calls[k].ok
           /\ calls[k].message = <<"Forbidden">>
    /\ \E k \in 1..Len(calls) :
           /\ calls[k].resp.kind = "timeout"
           /\ calls[k].message = TIMEOUT_MESSAGE

\* C8: a run whose request carries health=check outputs OK and stops; it
\* does not read the sheet, dispatch, touch the cache or the session state.
C8_HealthCheckTouchesNothing ==
    [][(pc = "idle" /\ pc' # "idle" /\ request'.health = "check") =>
           /\ pc' = "done"
           /\ outcome' = "health_ok"
           /\ UNCHANGED <<sheet_rows, cache, session_state, calls, reads, gsd, fetch>>
      ]_vars

\* a health check with the scrape button's state set, after a completed
\* scraping whose snapshot is still cached
C8_Witness ==
    /\ pc = "done"
    /\ outcome = "health_ok"
    /\ request.button = "scrape"
    /\ CacheLive(cache)
    /\ Has(session_state, "scraping_completed")
    /\ session_state["scraping_completed"]
    /\ calls = <<>>
    /\ reads = 0

\* C9: a call of get_sheet_data made while the entry of the call before
\* it is within the time-to-live, with no clear() in between, reads nothing
\* from the sheet and returns the same snapshot as the call before.
C9_SecondCallServedFromCache ==
    (fetch # None /\ ~fetch.after_clear /\ fetch.ttl_left) =>
        /\ ~fetch.remote
        /\ fetch.same
        /\ fetch.took = 0

\* the baseline of a submission is served from the cache of an earlier run
\* although the sheet has changed since
C9_Witness ==
    /\ pc = "dispatching"
    /\ fetch # None
    /\ ~fetch.after_clear
    /\ fetch.ttl_left
    /\ ~fetch.remote
    /\ sheet_rows # initial_count

\* a step of the polling loop that fetches and compares
PollStep == pc = "polling" /\ pc' # "polling" /\ outcome' # "timed_out"

\* C10: the call of get_sheet_data that follows a clear() reads the sheet,
\* whatever time-to-live was left; every iteration of the polling loop reads
\* the sheet exactly once and compares what it has just read.
C10_ClearForcesRemoteRead ==
    /\ []((fetch # None /\ fetch.after_clear) => fetch.remote)
    /\ [][PollStep =>
              /\ reads' = reads + 1
              /\ fetch'.after_clear
              /\ fetch'.remote
              /\ current_df' = fetch'.df
              /\ current_df' \in {DataFrame(sheet_rows), DataFrame(0)}
         ]_vars

\* a poll whose cleared entry had time-to-live left and which read a
\* different snapshot from the sheet
C10_Witness ==
    /\ pc = "sleeping"
    /\ fetch.after_clear
    /\ fetch.ttl_left
    /\ fetch.remote
    /\ ~fetch.same

\* C11: when one of SHEET_ID, N8N_WEBHOOK, X_API_KEY is missing, every run
\* that is not a health check halts with an error message, and no run ever
\* reads the sheet, dispatches, fills the cache or touches the session
\* state.
C11_MissingSettingHaltsFirst ==
    settings # AllSettings =>
        /\ pc \in {"idle", "done"}
        /\ session_state = <<>>
        /\ cache = None
        /\ gsd = NoCall
        /\ fetch = None
        /\ calls = <<>>
        /\ reads = 0
        /\ (pc = "done" /\ ~IsHealthCheck(request))
               => outcome \in {"config_error", "auth_error"}

\* a valid submission made while only X_API_KEY is missing: the run halted
\* on the configuration message
C11_Witness ==
    /\ AllSettings \ settings = {"X_API_KEY"}
    /\ pc = "done"
    /\ outcome = "config_error"
    /\ request.button = "scrape"
    /\ Len(Submitted) \in 1..MAX_USERNAMES
    /\ session_state = <<>>
    /\ calls = <<>>

\* C12: a failed read of the sheet gives the poller an empty table, which
\* it takes as 'not yet': the iteration stores the empty table, does one
\* read, returns nothing and goes on to the sleep.  The poller returns
\* success only from a read that did not fail, and returns False only once
\* the timeout has elapsed.
C12_FailedReadIsNotYet ==
    /\ [][(PollStep /\ fetch'.error) =>
              /\ current_df' = DataFrame(0)
              /\ reads' = reads + 1
              /\ result' = None
              /\ pc' = "sleeping"
              /\ outcome' = outcome
         ]_vars
    /\ []((Returned /\ result.success) => ~fetch.error)
    /\ []((Returned /\ ~result.success) => elapsed >= max_wait_time)

\* the poller sleeps after a failed read although the sheet has more rows
\* than the baseline
C12_Witness ==
    /\ pc = "sleeping"
    /\ fetch # None
    /\ fetch.error
    /\ RowCount(current_df) = 0
    /\ sheet_rows > initial_count
    /\ initial_count = 0
    /\ result = None

\* the outcomes of a submission
SubmissionOutcomes ==
    {"validation_empty", "validation_too_many", "dispatch_failed", "completed", "timed_out"}

\* every request of the submission was accepted
AllAccepted ==
    /\ Len(calls) = Len(usernames_list)
    /\ \A k \in 1..Len(calls) : calls[k].ok

\* C13: a submission ends in one of validation-rejected, dispatch-failed,
\* completed, timed-out.  Rejected: nothing was dispatched.  Dispatch-failed:
\* the error list is not empty and the poller did not run.  Completed and
\* timed-out: every dispatch succeeded, the error list is empty, and the
\* poller returned True resp. False.
C13_OneOutcome ==
    (pc = "done" /\ InScrapeHandler) =>
        /\ outcome \in SubmissionOutcomes
        /\ outcome \in {"validation_empty", "validation_too_many"} =>
               (calls = <<>> /\ errores = <<>> /\ result = None)
        /\ outcome = "dispatch_failed" =>
               (errores # <<>> /\ ~AllAccepted /\ result = None /\ current_df = None)
        /\ outcome = "completed" =>
               (errores = <<>> /\ AllAccepted /\ result # None /\ result.success)
        /\ outcome = "timed_out" =>
               (errores = <<>> /\ AllAccepted /\ result # None /\ ~result.success)

\* a batch of five, all accepted, whose wait timed out
C13_Witness ==
    /\ pc = "done"
    /\ outcome = "timed_out"
    /\ Len(calls) = MAX_USERNAMES
    /\ AllAccepted
    /\ errores = <<>>
    /\ ~result.success

\* C14: the poller runs only after every username was dispatched and none
\* failed; once a dispatch has failed the run goes on dispatching and ends
\* without calling wait_for_new_data, stores no result and leaves
\* scraping_completed false.
C14_PollerOnlyAfterAllAccepted ==
    /\ []((Waiting \/ result # None) => (AllAccepted /\ errores = <<>>))
    /\ [][(pc = "dispatching" /\ errores' # <<>>) =>
              /\ pc' \in {"dispatching", "done"}
              /\ result' = None
              /\ reads' = reads
              /\ session_state'["last_scraped_data"] = session_state["last_scraped_data"]
              /\ session_state'["scraping_completed"] = FALSE
              /\ pc' = "done" => (outcome' = "dispatch_failed" /\ shown' = "placeholder")
         ]_vars

\* three usernames of which only the second failed: all three were
\* dispatched, the run ended without a wait
C14_Witness ==
    /\ pc = "done"
    /\ outcome = "dispatch_failed"
    /\ Len(calls) = 3
    /\ calls[1].ok
    /\ ~calls[2].ok
    /\ calls[3].ok
    /\ Len(errores) = 1
    /\ current_df = None
    /\ result = None
    /\ ~session_state["scraping_completed"]

\* C15: the baseline of a submission is the number of rows the sheet has
\* when the submission is made, so that a poller that reports success has
\* seen the sheet grow after the baseline was taken (the sheet does not
\* change between the baseline and the start of the wait).
C15_BaselineIsCountAtSubmission ==
    /\ pc = "dispatching" => initial_count = sheet_rows
    /\ (Returned /\ result.success) => (growth # None /\ growth.during # "start")

\* C16: a submission of k usernames that ends with the success message
\* has found at least k rows more than its baseline in the sheet, one per
\* username at the least.
C16_AllUsernamesScraped ==
    (pc = "done" /\ outcome = "completed" /\ growth # None /\ growth.during # "start") =>
        RowCount(result.df) >= initial_count + Len(usernames_list)

\* the user presses Refresh on the page of a run that timed out, the sheet
\* having more rows than that run's baseline
RefreshAfterTimeout ==
    /\ pc = "idle"
    /\ previous.outcome = "timed_out"
    /\ sheet_rows > previous.baseline
    /\ pc' = "done"
    /\ request'.button = "refresh"
    /\ outcome' = "refreshed"

\* C17: pressing Refresh after a timeout, when the sheet has gained rows,
\* leads to a page that shows the data table and the download button.
C17_RefreshShowsNewData ==
    [][RefreshAfterTimeout => shown' = "table_and_download"]_vars

\* a run in which the Refresh button was pressed and handled
RefreshStep ==
    /\ pc = "idle"
    /\ pc' # "idle"
    /\ settings = AllSettings
    /\ ~IsHealthCheck(request')
    /\ request'.button = "refresh"
    /\ outcome' # "auth_error"

\* C18: Refresh sets scraping_completed to False, last_scraped_data to
\* None and scraping_in_progress to False, leaves no other session entry,
\* and empties the cache; it dispatches nothing, reads nothing from the
\* sheet and does not change it; the page after it shows the placeholder.
C18_RefreshOnlyResets ==
    [][RefreshStep =>
           /\ DOMAIN session_state' =
                  {"scraping_completed", "last_scraped_data", "scraping_in_progress"}
           /\ session_state'["scraping_completed"] = FALSE
           /\ session_state'["last_scraped_data"] = None
           /\ session_state'["scraping_in_progress"] = FALSE
           /\ cache' = None
           /\ gsd'.cleared
           /\ UNCHANGED <<sheet_rows, calls, reads, fetch, locals>>
           /\ shown' = "placeholder"
           /\ pc' = "done"
      ]_vars

\* Refresh after a completed scraping whose snapshot was still cached: the
\* result and the cache entry are gone
C18_Witness ==
    /\ pc = "done"
    /\ outcome = "refreshed"
    /\ gsd.df # None
    /\ RowCount(gsd.df) > 0
    /\ gsd.age < TTL
    /\ gsd.cleared
    /\ cache = None
    /\ session_state["last_scraped_data"] = None
    /\ shown = "placeholder"

ValidationRejected == outcome \in {"validation_empty", "validation_too_many"}

\* C19 as stated, its second half: the data table and the download button
\* are not offered after a validation rejection, a dispatch failure or a
\* timeout of the most recent submission.
C19_NoDataAfterUnsuccessfulSubmission ==
    (pc = "done" /\ (ValidationRejected \/ outcome \in {"dispatch_failed", "timed_out"}))
        => shown # "table_and_download"

\* C19, amended: whenever scraping_completed is true, last_scraped_data is
\* a snapshot with at least one row, and in the run that completes it is
\* the poller's snapshot, with more rows than that run's baseline.  The
\* data table and the download button are offered exactly when the flag is
\* true: never after a dispatch failure or a timeout of the most recent
\* submission, and after a validation rejection exactly when an earlier
\* submission had completed and no Refresh or valid submission came since.
C19_DataOnlyWhileCompleted ==
    Has(session_state, "scraping_completed") =>
        /\ session_state["scraping_completed"] =>
               /\ session_state["last_scraped_data"] # None
               /\ RowCount(session_state["last_scraped_data"]) > 0
        /\ (pc = "done" /\ outcome = "completed") =>
               /\ session_state["scraping_completed"]
               /\ session_state["last_scraped_data"] = result.df
               /\ RowCount(result.df) > initial_count
        /\ (pc = "done" /\ shown # "none") =>
               /\ shown = "table_and_download" <=> session_state["scraping_completed"]
               /\ shown # "no_data_error"
        /\ (pc = "done" /\ outcome \in {"dispatch_failed", "timed_out"}) =>
               /\ ~session_state["scraping_completed"]
               /\ shown = "placeholder"
        /\ (pc = "done" /\ ValidationRejected /\ session_state["scraping_completed"]) =>
               shown = "table_and_download"

\* six usernames are rejected and the page still offers the data of an
\* earlier completed scraping
C19_Witness ==
    /\ pc = "done"
    /\ outcome = "validation_too_many"
    /\ Len(Submitted) = MAX_USERNAMES + 1
    /\ session_state["scraping_completed"]
    /\ RowCount(session_state["last_scraped_data"]) > 0
    /\ shown = "table_and_download"

====
